---------------------------- MODULE Spec2Model ----------------------------
(***************************************************************************)
(* A model of the portfolio site's script (src/unnamed/part_000): the      *)
(* PasswordProtectionController (lines 1077-1517), the ContactController   *)
(* (lines 586-713), the debounce utility (lines 257-267), the              *)
(* MobileNavigationController (lines 464-580) and the AnimationController  *)
(* (lines 330-384).                                                        *)
(*                                                                         *)
(* The browser is single-threaded: every event handler and every timer     *)
(* callback runs to completion, so each one is one action.  Date.now() is  *)
(* the variable now; a timer set with setTimeout(f, d) is recorded with    *)
(* its due time now + d and may fire at any moment with now >= due.        *)
(*                                                                         *)
(* The markup of the pages is not part of the script.  A page is a case    *)
(* study or not (body.case-study-page), and its markup holds a             *)
(* #password-modal of the structure setupPasswordModal inserts, or none    *)
(* (page.staticModal): showPasswordModal and hidePasswordModal test for    *)
(* the element, so both kinds of page are covered.                         *)
(***************************************************************************)
EXTENDS Integers, Sequences, FiniteSets, TLC

VARIABLES
    now,          \* Date.now(), in ms
    ticks,        \* how many times the clock has been advanced (bounded)
    storage,      \* sessionStorage: key -> stored text (or the absent item)
    storageMode,  \* how sessionStorage behaves on this page load
    page,         \* the loaded document: [loaded, caseStudy, staticModal]
    dom,          \* the DOM pieces the password controller reads and writes
    pendingCheck, \* the 500 ms timer of handlePasswordSubmit
    lastOp,       \* the handler that ran last (history, read by no handler)
    authResult,   \* isAuthenticated called on its own: what it returned
    cc,           \* ContactController: [lastClickTime, clickCount]
    link,         \* .contact-copy-link: [text, copied, transform]
    env,          \* the browser: [clipboardApi, userAgentOk]
    clipboard,    \* the system clipboard's text
    cAnnounce,    \* the live region announceToScreenReader appended last
    timers,       \* pending setTimeout callbacks of the contact link, oldest first
    pendingWrites,\* clipboard writes whose promise has not settled yet
    unhandled,    \* an exception or rejection has left handleContactClick
    hist,         \* history of the contact clicks (read by no handler)
    db,           \* debounce's closure: [timeout, nextId]
    dbTimers,     \* the active timers of the debounced function
    dbHist,       \* history of the calls and of the runs of func
    navPage,      \* which of the navigation's elements the markup holds
    nav,          \* MobileNavigationController and the DOM it reads and writes
    navLast,      \* the navigation event handled last (history)
    animEnv,      \* the window and the '.fade-in' elements of the document
    anim,         \* AnimationController and the classes it sets
    animLast      \* the AnimationController operation that ran last (history)

pwVars == <<now, ticks, storage, storageMode, page, dom, pendingCheck, lastOp>>
authVars == <<authResult>>
contactVars == <<cc, link, env, clipboard, cAnnounce, timers, pendingWrites, unhandled, hist>>
debounceVars == <<db, dbTimers, dbHist>>
navVars == <<navPage, nav, navLast>>
animVars == <<animEnv, anim, animLast>>
vars == <<pwVars, authVars, contactVars, debounceVars, navVars, animVars>>

-----------------------------------------------------------------------------
(* Bounds of the model *)

\* Date.now() when the model starts
StartTime == 100000

\* how many times the clock may be advanced in one behaviour
MaxTicks == 3

-----------------------------------------------------------------------------
(* PasswordProtectionController: constructor fields *)

correctPassword == <<"3", "0", "2", "7">>

sessionKey == "portfolio_authenticated"

sessionExpiry == 24 * 60 * 60 * 1000

\* the delay of the setTimeout in handlePasswordSubmit
CheckDelay == 500

IncorrectMsg == "Incorrect password. Please try again."

-----------------------------------------------------------------------------
(* String.prototype.trim on the input's value, a sequence of characters *)

Whitespace == {" ", "\t"}

RECURSIVE TrimStart(_)
TrimStart(s) ==
    IF s # <<>> /\ Head(s) \in Whitespace THEN TrimStart(Tail(s)) ELSE s

RECURSIVE TrimEnd(_)
TrimEnd(s) ==
    IF s # <<>> /\ s[Len(s)] \in Whitespace
    THEN TrimEnd(SubSeq(s, 1, Len(s) - 1))
    ELSE s

Trim(s) == TrimEnd(TrimStart(s))

\* what a visitor may have typed into #password-input when the form is submitted
RawInputs ==
    { <<"3", "0", "2", "7">>,
      <<" ", "3", "0", "2", "7", "\t">>,
      <<"3", "0", " ", "2", "7">>,
      <<"3", "0", "2", "7", "x">>,
      <<"3", "0", "2">>,
      <<"0", "0", "0", "0">>,
      <<" ">> }

-----------------------------------------------------------------------------
(* sessionStorage.  A stored text is represented by what JSON.parse makes  *)
(* of it: "garbage" does not parse, "null" parses to null, "prim" parses   *)
(* to a number, string, boolean or array, "object" parses to an object     *)
(* with the two properties the code reads.  "none" is the absent item      *)
(* (getItem returns null) and "empty" the empty string.                    *)
(* authenticated is "true" (the boolean true), "false", "string" (a truthy *)
(* value that is not the boolean true) or "undefined"; hasTs says whether  *)
(* timestamp converts to a number (a number, a numeric string, null as 0): *)
(* without it now - timestamp is NaN.                                      *)

otherKey == "theme"

SessionKeys == {sessionKey, otherKey}

NoItem == [kind |-> "none", authenticated |-> "undefined", hasTs |-> FALSE, timestamp |-> 0]

Text(k) == [kind |-> k, authenticated |-> "undefined", hasTs |-> FALSE, timestamp |-> 0]

ObjectText(a, h, t) == [kind |-> "object", authenticated |-> a, hasTs |-> h, timestamp |-> t]

\* JSON.stringify({timestamp: t, authenticated: true})
Stringify(t) == ObjectText("true", TRUE, t)

\* "ok": every call works; "full": setItem throws (quota); "blocked": every
\* access to sessionStorage throws (SecurityError)
StorageModes == {"ok", "full", "blocked"}


GetItem(st, key) == st[key]

SetItem(st, key, text) == [st EXCEPT ![key] = text]

\* a removal that clears the whole storage (sessionStorage.clear())
RemoveItemClear(st, key) == [k \in DOMAIN st |-> NoItem]

RemoveItem(st, key) == [st EXCEPT ![key] = NoItem]

-----------------------------------------------------------------------------
(* PasswordProtectionController.authenticateUser: the write is inside a    *)
(* try block, so a throwing setItem leaves the storage as it was.          *)

AuthenticateUser(st, t, mode) ==
    IF mode = "ok" THEN SetItem(st, sessionKey, Stringify(t)) ELSE st

(* PasswordProtectionController.isAuthenticated.  The whole body is inside *)
(* a try block whose catch returns false.                                  *)

\* JSON.parse(authData) throws, or parsed.timestamp throws (parsed is null)
ParseThrows(item) == item.kind \in {"garbage", "null"}

\* now - parsed.timestamp > this.sessionExpiry; a missing or non-numeric
\* timestamp makes the difference NaN, and NaN > x is false
ExpiredAtLimit(item, t) ==
    /\ item.kind = "object"
    /\ item.hasTs
    /\ t - item.timestamp >= sessionExpiry

Expired(item, t) ==
    /\ item.kind = "object"
    /\ item.hasTs
    /\ t - item.timestamp > sessionExpiry

IsAuthenticated(st, t, mode) ==
    IF mode = "blocked" THEN FALSE
    ELSE LET authData == GetItem(st, sessionKey) IN
         IF authData.kind \in {"none", "empty"} THEN FALSE
         ELSE IF ParseThrows(authData) THEN FALSE
         ELSE IF Expired(authData, t) THEN FALSE
         ELSE authData.kind = "object" /\ authData.authenticated = "true"

\* sessionStorage after the call
IsAuthenticatedStorage(st, t, mode) ==
    IF mode = "blocked" THEN st
    ELSE LET authData == GetItem(st, sessionKey) IN
         IF authData.kind \in {"none", "empty"} THEN st
         ELSE IF ParseThrows(authData) THEN st
         ELSE IF Expired(authData, t) THEN RemoveItem(st, sessionKey)
         ELSE st

\* logout: removeItem inside a try block
LogoutStorage(st, mode) ==
    IF mode = "blocked" THEN st ELSE RemoveItem(st, sessionKey)

-----------------------------------------------------------------------------
(* The DOM of the password modal.  announce is the text of the live region *)
(* announceToScreenReader appended last (the node's removal after 1000 ms  *)
(* is read by nothing and is left out), "" when there was none.            *)

FreshDom(staticModal) ==
    [ modalExists   |-> staticModal,
      modalShow     |-> FALSE,
      bodyProtected |-> FALSE,
      errorText     |-> "",
      inputError    |-> FALSE,
      btnDisabled   |-> FALSE,
      btnText       |-> "Access Project",
      announce      |-> "" ]

Announce(d, message) == [d EXCEPT !.announce = message]

ShowPasswordModal(d) ==
    IF d.modalExists
    THEN Announce([d EXCEPT !.modalShow = TRUE, !.bodyProtected = TRUE],
                  "Password protection modal opened")
    ELSE d

HidePasswordModal(d) ==
    IF d.modalExists
    THEN Announce([d EXCEPT !.modalShow = FALSE, !.bodyProtected = FALSE],
                  "Password protection modal closed")
    ELSE d

ShowError(d, message) ==
    Announce([d EXCEPT !.errorText = message], message)

ClearError(d) == [d EXCEPT !.errorText = ""]

\* setupPasswordProtection, given what isAuthenticated returned
SetupPasswordProtection(d, caseStudy, authenticated) ==
    IF caseStudy /\ ~authenticated THEN ShowPasswordModal(d) ELSE d

\* setupPasswordModal: the modal is inserted at the end of body.  Every
\* later lookup by id finds the first #password-modal of the document, so a
\* modal already in the markup stays the one the handlers act on.
SetupPasswordModal(d) == [d EXCEPT !.modalExists = TRUE]

\* init(): setupPasswordProtection(), then setupPasswordModal()
InitDom(d, caseStudy, authenticated) ==
    SetupPasswordModal(SetupPasswordProtection(d, caseStudy, authenticated))

\* typed is the input's value as the visitor left it (history)
NoCheck == [active |-> FALSE, password |-> <<>>, typed |-> <<>>, due |-> 0]

Op(name) == [name |-> name, typed |-> <<>>]

-----------------------------------------------------------------------------
(* Actions of the password controller *)

\* A page of the site is loaded in the tab (first visit, reload, or a link
\* to another page): a fresh document, the timers of the old one are gone,
\* sessionStorage is kept.  new PasswordProtectionController() runs init().
Construct ==
    \E caseStudy \in BOOLEAN, staticModal \in BOOLEAN, mode \in StorageModes :
        LET authenticated == caseStudy /\ IsAuthenticated(storage, now, mode) IN
        /\ page' = [loaded |-> TRUE, caseStudy |-> caseStudy, staticModal |-> staticModal]
        /\ storageMode' = mode
        /\ storage' = IF caseStudy THEN IsAuthenticatedStorage(storage, now, mode)
                      ELSE storage
        /\ dom' = InitDom(FreshDom(staticModal), caseStudy, authenticated)
        /\ pendingCheck' = NoCheck
        /\ lastOp' = Op("construct")
        /\ UNCHANGED <<now, ticks>>

\* the form's submit handler: handlePasswordSubmit(input.value.trim(), errorDiv).
\* The visitor can submit only a visible form whose button is enabled.
Submit ==
    \E raw \in RawInputs :
        /\ page.loaded /\ dom.modalShow /\ ~dom.btnDisabled
        /\ dom' = [dom EXCEPT !.btnDisabled = TRUE, !.btnText = "Checking..."]
        /\ pendingCheck' = [active |-> TRUE, password |-> Trim(raw), typed |-> raw,
                            due |-> now + CheckDelay]
        /\ lastOp' = Op("submit")
        /\ UNCHANGED <<now, ticks, storage, storageMode, page>>

\* the page after the timer callback of handlePasswordSubmit
CheckedDom(d, password) ==
    LET decided ==
            IF password = correctPassword
            THEN Announce(HidePasswordModal(d),
                          "Access granted. Project content is now available.")
            ELSE [ShowError(d, IncorrectMsg) EXCEPT !.inputError = TRUE]
    IN [decided EXCEPT !.btnDisabled = FALSE, !.btnText = "Access Project"]

\* a check that forgets to compare the password
CheckedStorageNoCompare(st, password, t, mode) == AuthenticateUser(st, t, mode)

CheckedStorage(st, password, t, mode) ==
    IF password = correctPassword THEN AuthenticateUser(st, t, mode) ELSE st

\* the timer callback of handlePasswordSubmit
CheckTimer ==
    /\ pendingCheck.active /\ now >= pendingCheck.due
    /\ storage' = CheckedStorage(storage, pendingCheck.password, now, storageMode)
    /\ dom' = CheckedDom(dom, pendingCheck.password)
    /\ pendingCheck' = NoCheck
    /\ lastOp' = [name |-> "check", typed |-> pendingCheck.typed]
    /\ UNCHANGED <<now, ticks, storageMode, page>>

\* click on .password-modal-close
CloseDom(d) == Announce(HidePasswordModal(d), "Password modal closed")

CloseClick ==
    /\ page.loaded /\ dom.modalShow
    /\ dom' = CloseDom(dom)
    /\ lastOp' = Op("close")
    /\ UNCHANGED <<now, ticks, storage, storageMode, page, pendingCheck>>

Keys == {"Enter", " ", "Tab"}

\* keydown on .password-modal-close
CloseKeydown ==
    \E key \in Keys :
        /\ page.loaded /\ dom.modalShow
        /\ dom' = IF key \in {"Enter", " "} THEN CloseDom(dom) ELSE dom
        /\ lastOp' = Op("key")
        /\ UNCHANGED <<now, ticks, storage, storageMode, page, pendingCheck>>

\* input event on #password-input
InputEvent ==
    /\ page.loaded /\ dom.modalShow
    /\ dom' = [ClearError(dom) EXCEPT !.inputError = FALSE]
    /\ lastOp' = Op("input")
    /\ UNCHANGED <<now, ticks, storage, storageMode, page, pendingCheck>>

\* logout()
Logout ==
    /\ page.loaded
    /\ storage' = LogoutStorage(storage, storageMode)
    /\ dom' = IF storageMode = "blocked" THEN dom
              ELSE Announce(dom, "Logged out successfully")
    /\ lastOp' = Op("logout")
    /\ UNCHANGED <<now, ticks, storageMode, page, pendingCheck>>

\* time passes
TickSteps == {1, CheckDelay, sessionExpiry}

Tick ==
    \E d \in TickSteps :
        /\ ticks < MaxTicks
        /\ now' = now + d
        /\ ticks' = ticks + 1
        /\ lastOp' = Op("tick")
        /\ UNCHANGED <<storage, storageMode, page, dom, pendingCheck>>

InitStorage == [k \in SessionKeys |-> IF k = otherKey THEN Text("prim") ELSE NoItem]

NotCalled == [called |-> FALSE, result |-> FALSE, before |-> NoItem]

\* the state of the contact link after new ContactController() (see below)
ContactIdle ==
    /\ cc = [lastClickTime |-> 0, clickCount |-> 0]
    /\ link = [text |-> <<"Contact">>, copied |-> FALSE, transform |-> ""]
    /\ env = [clipboardApi |-> TRUE, userAgentOk |-> TRUE]
    /\ clipboard = ""
    /\ cAnnounce = ""
    /\ timers = <<>>
    /\ pendingWrites = 0
    /\ unhandled = FALSE
    /\ hist = [outcome |-> "none", runAccepted |-> 0, clicks |-> 0]
    /\ db = [timeout |-> 0, nextId |-> 1]
    /\ dbTimers = {}
    /\ dbHist = [calls |-> 0, bursts |-> 0, skipped |-> 0, runs |-> 0,
                 lastCall |-> 0, lastArgs |-> "", ranArgs |-> ""]

\* a document without a navigation, before new MobileNavigationController()
NavIdle ==
    /\ navPage = [toggle |-> FALSE, navMenu |-> FALSE, navHeader |-> FALSE]
    /\ nav = [isOpen |-> FALSE, ariaExpanded |-> "false", mobileOpen |-> FALSE,
              focus |-> "body", announce |-> "", announced |-> 0,
              blurTimers |-> 0, thrown |-> FALSE]
    /\ navLast = [event |-> "none", target |-> "body", key |-> "", n |-> 0]

\* a document without '.fade-in' elements, before new AnimationController()
AnimIdle ==
    /\ animEnv = [hasObserver |-> TRUE, fadeIn |-> {}]
    /\ anim = [constructed |-> FALSE, observer |-> "null", observed |-> {},
               visible |-> {}, thrown |-> FALSE]
    /\ animLast = [op |-> "none", destroys |-> 0]

Init ==
    /\ ContactIdle
    /\ NavIdle
    /\ AnimIdle
    /\ now = StartTime
    /\ ticks = 0
    /\ storage = InitStorage
    /\ storageMode = "ok"
    /\ page = [loaded |-> FALSE, caseStudy |-> FALSE, staticModal |-> FALSE]
    /\ dom = FreshDom(FALSE)
    /\ pendingCheck = NoCheck
    /\ lastOp = Op("none")
    /\ authResult = NotCalled

Next ==
    \/ Construct /\ UNCHANGED <<authVars, contactVars, debounceVars, navVars, animVars>>
    \/ Submit /\ UNCHANGED <<authVars, contactVars, debounceVars, navVars, animVars>>
    \/ CheckTimer /\ UNCHANGED <<authVars, contactVars, debounceVars, navVars, animVars>>
    \/ CloseClick /\ UNCHANGED <<authVars, contactVars, debounceVars, navVars, animVars>>
    \/ CloseKeydown /\ UNCHANGED <<authVars, contactVars, debounceVars, navVars, animVars>>
    \/ InputEvent /\ UNCHANGED <<authVars, contactVars, debounceVars, navVars, animVars>>
    \/ Logout /\ UNCHANGED <<authVars, contactVars, debounceVars, navVars, animVars>>
    \/ Tick /\ UNCHANGED <<authVars, contactVars, debounceVars, navVars, animVars>>

Spec == Init /\ [][Next]_vars

-----------------------------------------------------------------------------
(* isAuthenticated as a function of the storage, the clock and the storage *)
(* mode: the stored text may be anything a visitor or an earlier page left *)
(* under the key.                                                          *)

\* how far the clocks and timestamps are spread around the expiry limit
MaxSkew == 2

AuthNows == {StartTime + sessionExpiry + k : k \in 0..MaxSkew}

AuthStamps == {0, StartTime + 2 * sessionExpiry} \cup {StartTime + k : k \in -1..(MaxSkew + 1)}

AuthValues == {"true", "false", "string", "undefined"}

AuthItems ==
    {NoItem} \cup {Text(k) : k \in {"empty", "garbage", "null", "prim"}}
    \cup {ObjectText(a, TRUE, t) : a \in AuthValues, t \in AuthStamps}
    \cup {ObjectText(a, FALSE, 0) : a \in AuthValues}

InitAuth ==
    /\ ContactIdle
    /\ NavIdle
    /\ AnimIdle
    /\ now \in AuthNows
    /\ ticks = 0
    /\ storage \in {[InitStorage EXCEPT ![sessionKey] = item] : item \in AuthItems}
    /\ storageMode \in StorageModes
    /\ page = [loaded |-> FALSE, caseStudy |-> FALSE, staticModal |-> FALSE]
    /\ dom = FreshDom(FALSE)
    /\ pendingCheck = NoCheck
    /\ lastOp = Op("none")
    /\ authResult = NotCalled

CallIsAuthenticated ==
    /\ ~authResult.called
    /\ authResult' = [called |-> TRUE,
                      result |-> IsAuthenticated(storage, now, storageMode),
                      before |-> GetItem(storage, sessionKey)]
    /\ storage' = IsAuthenticatedStorage(storage, now, storageMode)
    /\ UNCHANGED <<now, ticks, storageMode, page, dom, pendingCheck, lastOp>>
    /\ UNCHANGED <<contactVars, debounceVars, navVars, animVars>>

NextAuth == CallIsAuthenticated

SpecAuth == InitAuth /\ [][NextAuth]_vars

-----------------------------------------------------------------------------
(* ContactController *)

\* how many click or key events reach the contact link in one behaviour
MaxClicks == 5

\* atob('YW5kcmV3bWFsb25lZGVzaWduQGdtYWlsLmNvbQ==')
email == "andrewmalonedesign@gmail.com"

\* the 1 second cooldown of the rate limit
Cooldown == 1000

\* how many rapid clicks the rate limit lets through
RapidLimit == 3

TransformDelay == 150

ResetDelay == 1500

CopiedMsg == "Email address copied to clipboard"

UnableMsg == "Unable to copy email automatically. Please copy the email address manually"

\* if (now - this.lastClickTime < 1000)
IsRapid(t, lastClickTime) == t - lastClickTime < Cooldown

\* a limit that lets one more rapid click through
BlockedOffByOne(count) == count > RapidLimit + 1

\* if (this.clickCount > 3) return
Blocked(count) == count > RapidLimit

\* this.clickCount after the rate limiting block
CountAfter(t, c) ==
    IF IsRapid(t, c.lastClickTime) THEN c.clickCount + 1 ELSE 0

\* whether the click gets past the rate limit
Accepted(t, c) ==
    ~(IsRapid(t, c.lastClickTime) /\ Blocked(CountAfter(t, c)))

Timer(kind, delay, t, text) ==
    [kind |-> kind, delay |-> delay, due |-> t + delay, originalText |-> text]

\* showCopiedState(link): the link, and the timers with the reset appended
CopiedLink(l) == [l EXCEPT !.copied = TRUE, !.text = <<"Copied!">>]

CopiedTimers(tm, l, t) == Append(tm, Timer("reset", ResetDelay, t, Trim(l.text)))

\* a rejection that is not caught
EscapesOnFailure(outcome) == outcome # "resolve"

\* whether a failed write leaves handleContactClick: the call and its await
\* are inside the try block, and the catch block handles both a synchronous
\* throw and a rejection
Escapes(outcome) == FALSE

\* the message the handler announces for a settled or throwing write
Announced(outcome) == IF outcome = "resolve" THEN CopiedMsg ELSE UnableMsg

\* the try block after the await, or the catch block: both set the transform,
\* start its 150 ms timer, announce and call showCopiedState
Feedback(outcome) ==
    IF Escapes(outcome)
    THEN /\ unhandled' = TRUE
         /\ UNCHANGED <<link, timers, cAnnounce>>
    ELSE /\ cAnnounce' = Announced(outcome)
         /\ link' = CopiedLink([link EXCEPT !.transform = "scale(0.95)"])
         /\ timers' = CopiedTimers(
                Append(timers, Timer("transform", TransformDelay, now, <<>>)),
                link, now)
         /\ UNCHANGED unhandled

\* handleContactClick up to the await
HandleContactClick ==
    /\ hist.clicks < MaxClicks
    /\ LET rapid == IsRapid(now, cc.lastClickTime)
           passed == env.userAgentOk /\ Accepted(now, cc)
           outcome == IF ~env.userAgentOk THEN "refused"
                      ELSE IF ~passed THEN "blocked"
                      ELSE IF ~env.clipboardApi THEN "throw"
                      ELSE "started"
       IN /\ cc' = IF ~env.userAgentOk THEN cc
                   ELSE IF ~passed THEN [cc EXCEPT !.clickCount = CountAfter(now, cc)]
                   ELSE [lastClickTime |-> now, clickCount |-> CountAfter(now, cc)]
          /\ hist' = [outcome |-> outcome,
                      runAccepted |-> (IF rapid THEN hist.runAccepted ELSE 0)
                                      + (IF passed THEN 1 ELSE 0),
                      clicks |-> hist.clicks + 1]
          /\ IF outcome = "throw"
             THEN Feedback("throw") /\ UNCHANGED pendingWrites
             ELSE /\ pendingWrites' = IF outcome = "started"
                                      THEN pendingWrites + 1 ELSE pendingWrites
                  /\ UNCHANGED <<link, timers, cAnnounce, unhandled>>
          /\ UNCHANGED <<env, clipboard>>

\* click on the contact link
ContactClick == HandleContactClick

\* keydown on the contact link: Enter and space act as a click
ContactKeydown ==
    \E key \in Keys :
        IF key \in {"Enter", " "}
        THEN HandleContactClick
        ELSE UNCHANGED contactVars

\* the promise of navigator.clipboard.writeText settles and the handler resumes
WriteSettles ==
    \E outcome \in {"resolve", "reject"} :
        /\ pendingWrites > 0
        /\ pendingWrites' = pendingWrites - 1
        /\ clipboard' = IF outcome = "resolve" THEN email ELSE clipboard
        /\ Feedback(outcome)
        /\ hist' = [hist EXCEPT !.outcome = outcome]
        /\ UNCHANGED <<cc, env>>

\* setTimeout's order: a timer waits for every timer started before it whose
\* delay is not longer than its own
MayFire(i) ==
    /\ now >= timers[i].due
    /\ \A j \in 1..(i - 1) : timers[j].delay > timers[i].delay

RemoveAt(seq, i) == SubSeq(seq, 1, i - 1) \o SubSeq(seq, i + 1, Len(seq))

\* the link after a timer callback
TimerLink(l, tm) ==
    IF tm.kind = "transform"
    THEN [l EXCEPT !.transform = ""]
    ELSE [l EXCEPT !.copied = FALSE, !.text = tm.originalText]

\* a timer callback of the contact link runs
ContactTimer ==
    \E i \in 1..Len(timers) :
        /\ MayFire(i)
        /\ link' = TimerLink(link, timers[i])
        /\ timers' = RemoveAt(timers, i)
        /\ UNCHANGED <<cc, env, clipboard, cAnnounce, pendingWrites, unhandled, hist>>

ContactSteps == {1, Cooldown - 1, ResetDelay}

\* how many times the clock may be advanced while the contact link is used
MaxContactTicks == 2

ContactTick ==
    \E d \in ContactSteps :
        /\ ticks < MaxContactTicks
        /\ now' = now + d
        /\ ticks' = ticks + 1
        /\ UNCHANGED contactVars

\* the page with the contact link has been loaded in some browser
InitContact ==
    /\ NavIdle
    /\ AnimIdle
    /\ now = StartTime
    /\ ticks = 0
    /\ storage = InitStorage
    /\ storageMode = "ok"
    /\ page = [loaded |-> FALSE, caseStudy |-> FALSE, staticModal |-> FALSE]
    /\ dom = FreshDom(FALSE)
    /\ pendingCheck = NoCheck
    /\ lastOp = Op("none")
    /\ authResult = NotCalled
    /\ cc = [lastClickTime |-> 0, clickCount |-> 0]
    /\ link = [text |-> <<"Contact">>, copied |-> FALSE, transform |-> ""]
    /\ env \in [clipboardApi : BOOLEAN, userAgentOk : BOOLEAN]
    /\ clipboard = ""
    /\ cAnnounce = ""
    /\ timers = <<>>
    /\ pendingWrites = 0
    /\ unhandled = FALSE
    /\ hist = [outcome |-> "none", runAccepted |-> 0, clicks |-> 0]
    /\ db = [timeout |-> 0, nextId |-> 1]
    /\ dbTimers = {}
    /\ dbHist = [calls |-> 0, bursts |-> 0, skipped |-> 0, runs |-> 0,
                 lastCall |-> 0, lastArgs |-> "", ranArgs |-> ""]

frameContact == <<storage, storageMode, page, dom, pendingCheck, lastOp, authResult, debounceVars, navVars, animVars>>

NextContact ==
    \/ ContactClick /\ UNCHANGED <<now, ticks, frameContact>>
    \/ ContactKeydown /\ UNCHANGED <<now, ticks, frameContact>>
    \/ WriteSettles /\ UNCHANGED <<now, ticks, frameContact>>
    \/ ContactTimer /\ UNCHANGED <<now, ticks, frameContact>>
    \/ ContactTick /\ UNCHANGED frameContact

SpecContact == InitContact /\ [][NextContact]_vars

-----------------------------------------------------------------------------
(* debounce(func, wait), as monitorScrollPerformance uses it *)

\* how many times the debounced function is called in one behaviour
MaxCalls == 4

\* how many times the clock may be advanced between and after the calls
MaxDebounceTicks == 4

\* debounce(..., 16)
Wait == 16

\* what the calls pass to the debounced function
Args == {"a", "b"}

\* clearTimeout(id); an id that is not active (0 stands for undefined) clears nothing
ClearTimeout(ts, id) == {t \in ts : t.id # id}

\* an executedFunction that does not clear the timer of the call before
CalledTimersNoClear(ts, d, t, args) ==
    ts \cup {[id |-> d.nextId, due |-> t + Wait, args |-> args]}

\* executedFunction(...args): clearTimeout(timeout); timeout = setTimeout(later, wait)
CalledTimers(ts, d, t, args) ==
    ClearTimeout(ts, d.timeout) \cup {[id |-> d.nextId, due |-> t + Wait, args |-> args]}

\* a call of the debounced function
DebouncedCall ==
    \E args \in Args :
        /\ dbHist.calls < MaxCalls
        /\ dbTimers' = CalledTimers(dbTimers, db, now, args)
        /\ db' = [timeout |-> db.nextId, nextId |-> db.nextId + 1]
        /\ dbHist' = [dbHist EXCEPT
              !.calls = @ + 1,
              !.bursts = IF dbHist.calls = 0 \/ now - dbHist.lastCall >= Wait
                         THEN @ + 1 ELSE @,
              !.skipped = IF \E t \in dbTimers : t.due <= now THEN @ + 1 ELSE @,
              !.lastCall = now,
              !.lastArgs = args]

\* later(): clearTimeout(timeout); func(...args).  Timers of one delay fire
\* in the order they were started.
DebounceTimer ==
    \E t \in dbTimers :
        /\ now >= t.due
        /\ \A u \in dbTimers : u.id >= t.id
        /\ dbTimers' = ClearTimeout(dbTimers \ {t}, db.timeout)
        /\ dbHist' = [dbHist EXCEPT !.runs = @ + 1, !.ranArgs = t.args]
        /\ UNCHANGED db

DebounceSteps == {1, Wait - 1, Wait}

DebounceTick ==
    \E d \in DebounceSteps :
        /\ ticks < MaxDebounceTicks
        /\ now' = now + d
        /\ ticks' = ticks + 1
        /\ UNCHANGED debounceVars

frameDebounce == <<storage, storageMode, page, dom, pendingCheck, lastOp, authResult, contactVars, navVars, animVars>>

NextDebounce ==
    \/ DebouncedCall /\ UNCHANGED <<now, ticks, frameDebounce>>
    \/ DebounceTimer /\ UNCHANGED <<now, ticks, frameDebounce>>
    \/ DebounceTick /\ UNCHANGED frameDebounce

SpecDebounce == Init /\ [][NextDebounce]_vars

-----------------------------------------------------------------------------
(* MobileNavigationController.  The markup may hold a                      *)
(* .mobile-menu-toggle, a .nav-menu (with its .nav-link elements) and a    *)
(* .nav-header, each or none (navPage).  A target is the toggle, a nav     *)
(* link, some other element inside .nav-header ("header") or an element    *)
(* outside it ("outside" for clicks, "body" for the focus).  An event on   *)
(* an element runs the element's listener and then, bubbling, the          *)
(* document's; one action is the whole dispatch.                           *)

\* how many navigation events one behaviour holds
MaxNavEvents == 4

OpenedMsg == "Navigation menu opened"

ClosedMsg == "Navigation menu closed"

\* closeMobileMenu()
CloseMobileMenu(s) ==
    IF navPage.toggle /\ navPage.navMenu
    THEN [s EXCEPT !.isOpen = FALSE,
                   !.ariaExpanded = "false",
                   !.mobileOpen = FALSE,
                   !.announce = ClosedMsg,
                   !.announced = @ + 1,
                   !.focus = "toggle"]
    ELSE s

\* openMobileMenu(); the setTimeout(..., 0) is counted in blurTimers
OpenMobileMenu(s) ==
    IF navPage.toggle /\ navPage.navMenu
    THEN [s EXCEPT !.isOpen = TRUE,
                   !.ariaExpanded = "true",
                   !.mobileOpen = TRUE,
                   !.announce = OpenedMsg,
                   !.announced = @ + 1,
                   !.blurTimers = @ + 1]
    ELSE s

\* toggleMobileMenu()
ToggleMobileMenu(s) ==
    IF s.isOpen THEN CloseMobileMenu(s) ELSE OpenMobileMenu(s)

\* the click listeners setupMobileMenu adds to the toggle and to the nav links
TargetClick(s, target) ==
    IF navPage.toggle /\ navPage.navMenu
    THEN CASE target = "toggle" -> ToggleMobileMenu(s)
           [] target = "navLink" -> CloseMobileMenu(s)
           [] OTHER -> s
    ELSE s

\* navHeader.contains(e.target): the toggle and the nav links lie in the header
Contains(target) == target \in {"header", "toggle", "navLink"}

\* the document's click listener (setupClickOutside).  querySelector gives
\* null for an absent .nav-header, and null.contains(...) is a TypeError.
DocumentClick(s, target) ==
    IF ~s.isOpen THEN s
    ELSE IF ~navPage.navHeader THEN [s EXCEPT !.thrown = TRUE]
    ELSE IF ~Contains(target) /\ target # "toggle" THEN CloseMobileMenu(s)
    ELSE s

\* the keydown listener of the toggle (setupKeyboardNavigation)
ToggleKeydown(s, key) ==
    LET s1 == IF key \in {"Enter", " "} THEN ToggleMobileMenu(s) ELSE s
    IN  IF key = "Escape" THEN CloseMobileMenu(s1) ELSE s1

\* a document keydown listener that closes the menu without looking at isOpen
DocumentKeydownAlways(s, key) ==
    IF key = "Escape" THEN CloseMobileMenu(s) ELSE s

\* the document's keydown listener (setupKeyboardNavigation)
DocumentKeydown(s, key) ==
    IF key = "Escape" /\ s.isOpen THEN CloseMobileMenu(s) ELSE s

\* the elements of this page a click can hit
ClickTargets ==
    {"outside"}
    \cup (IF navPage.toggle THEN {"toggle"} ELSE {})
    \cup (IF navPage.navMenu THEN {"navLink"} ELSE {})
    \cup (IF navPage.navHeader THEN {"header"} ELSE {})

\* the elements of this page that can hold the focus
FocusTargets ==
    {"body"}
    \cup (IF navPage.toggle THEN {"toggle"} ELSE {})
    \cup (IF navPage.navMenu THEN {"navLink"} ELSE {})

NavKeys == {"Enter", " ", "Escape", "Tab"}

\* a click somewhere in the document
NavClick ==
    \E target \in ClickTargets :
        /\ navLast.n < MaxNavEvents
        /\ nav' = DocumentClick(TargetClick(nav, target), target)
        /\ navLast' = [event |-> "click", target |-> target, key |-> "",
                       n |-> navLast.n + 1]
        /\ UNCHANGED navPage

\* a keydown; its target is the element that has the focus
NavKeydown ==
    \E key \in NavKeys :
        /\ navLast.n < MaxNavEvents
        /\ nav' = DocumentKeydown(
                      IF nav.focus = "toggle" THEN ToggleKeydown(nav, key) ELSE nav,
                      key)
        /\ navLast' = [event |-> "keydown", target |-> nav.focus, key |-> key,
                       n |-> navLast.n + 1]
        /\ UNCHANGED navPage

\* the visitor moves the focus (Tab, a tap) to another element
NavFocus ==
    \E target \in FocusTargets :
        /\ navLast.n < MaxNavEvents
        /\ target # nav.focus
        /\ nav' = [nav EXCEPT !.focus = target]
        /\ navLast' = [event |-> "focus", target |-> target, key |-> "",
                       n |-> navLast.n + 1]
        /\ UNCHANGED navPage

\* the callback of openMobileMenu's setTimeout: a focused nav link is blurred
NavBlurTimer ==
    /\ nav.blurTimers > 0
    /\ nav' = [nav EXCEPT !.blurTimers = @ - 1,
                          !.focus = IF @ = "navLink" THEN "body" ELSE @]
    /\ UNCHANGED <<navPage, navLast>>

\* after new MobileNavigationController() on a page of any markup
InitNav ==
    /\ ContactIdle
    /\ AnimIdle
    /\ now = StartTime
    /\ ticks = 0
    /\ storage = InitStorage
    /\ storageMode = "ok"
    /\ page = [loaded |-> FALSE, caseStudy |-> FALSE, staticModal |-> FALSE]
    /\ dom = FreshDom(FALSE)
    /\ pendingCheck = NoCheck
    /\ lastOp = Op("none")
    /\ authResult = NotCalled
    /\ navPage \in [toggle : BOOLEAN, navMenu : BOOLEAN, navHeader : BOOLEAN]
    /\ nav = [isOpen |-> FALSE, ariaExpanded |-> "false", mobileOpen |-> FALSE,
              focus |-> "body", announce |-> "", announced |-> 0,
              blurTimers |-> 0, thrown |-> FALSE]
    /\ navLast = [event |-> "none", target |-> "body", key |-> "", n |-> 0]

frameNav == <<pwVars, authVars, contactVars, debounceVars, animVars>>

NextNav ==
    \/ NavClick /\ UNCHANGED frameNav
    \/ NavKeydown /\ UNCHANGED frameNav
    \/ NavFocus /\ UNCHANGED frameNav
    \/ NavBlurTimer /\ UNCHANGED frameNav

SpecNav == InitNav /\ [][NextNav]_vars

-----------------------------------------------------------------------------
(* AnimationController.  The document holds some '.fade-in' elements, of   *)
(* which the markup may already mark some 'visible'; the window has an     *)
(* IntersectionObserver or not (animEnv).  anim.observer is "null", or the *)
(* observer created by init(), "created", or that observer after           *)
(* disconnect(), "disconnected".                                           *)

\* how many elements the document may hold
MaxElements == 3

\* how many times beforeunload may fire
MaxDestroys == 2

Elements == 1..MaxElements

\* showAllAnimations()
ShowAllAnimations(a) == [a EXCEPT !.visible = @ \cup animEnv.fadeIn]

\* observeElements()
ObserveElements(a) == [a EXCEPT !.observed = animEnv.fadeIn]

\* init()
AnimInit(a) ==
    IF ~animEnv.hasObserver
    THEN ShowAllAnimations(a)
    ELSE ObserveElements([a EXCEPT !.observer = "created"])

\* a destroy() that calls this.observer.disconnect() without testing this.observer
DestroyUnguarded(a) ==
    IF a.observer # "null"
    THEN [a EXCEPT !.observer = "disconnected", !.observed = {}]
    ELSE [a EXCEPT !.thrown = TRUE]

\* destroy()
Destroy(a) ==
    IF a.observer # "null"
    THEN [a EXCEPT !.observer = "disconnected", !.observed = {}]
    ELSE a

\* new AnimationController()
AnimConstruct ==
    /\ ~anim.constructed
    /\ anim' = AnimInit([anim EXCEPT !.constructed = TRUE])
    /\ animLast' = [animLast EXCEPT !.op = "init"]
    /\ UNCHANGED animEnv

\* the observer's callback: the entries that intersect get 'visible' and are
\* unobserved; entries that do not intersect change nothing
AnimIntersect ==
    \E hit \in SUBSET anim.observed :
        /\ hit # {}
        /\ anim.observer = "created"
        /\ anim' = [anim EXCEPT !.visible = @ \cup hit, !.observed = @ \ hit]
        /\ animLast' = [animLast EXCEPT !.op = "intersect"]
        /\ UNCHANGED animEnv

\* the beforeunload listener: animationController.destroy()
AnimDestroy ==
    /\ anim.constructed
    /\ animLast.destroys < MaxDestroys
    /\ anim' = Destroy(anim)
    /\ animLast' = [op |-> "destroy", destroys |-> animLast.destroys + 1]
    /\ UNCHANGED animEnv

\* a document is loaded, in a browser with or without IntersectionObserver
InitAnim ==
    /\ ContactIdle
    /\ NavIdle
    /\ now = StartTime
    /\ ticks = 0
    /\ storage = InitStorage
    /\ storageMode = "ok"
    /\ page = [loaded |-> FALSE, caseStudy |-> FALSE, staticModal |-> FALSE]
    /\ dom = FreshDom(FALSE)
    /\ pendingCheck = NoCheck
    /\ lastOp = Op("none")
    /\ authResult = NotCalled
    /\ animEnv \in [hasObserver : BOOLEAN, fadeIn : SUBSET Elements]
    /\ \E marked \in SUBSET animEnv.fadeIn :
           anim = [constructed |-> FALSE, observer |-> "null", observed |-> {},
                   visible |-> marked, thrown |-> FALSE]
    /\ animLast = [op |-> "none", destroys |-> 0]

frameAnim == <<pwVars, authVars, contactVars, debounceVars, navVars>>

NextAnim ==
    \/ AnimConstruct /\ UNCHANGED frameAnim
    \/ AnimIntersect /\ UNCHANGED frameAnim
    \/ AnimDestroy /\ UNCHANGED frameAnim

SpecAnim == InitAnim /\ [][NextAnim]_vars

-----------------------------------------------------------------------------
(* Properties *)

\* the visitor's text, with the whitespace at both ends ignored, is '3027'
TypedCorrect(raw) ==
    \E i \in 1..Len(raw), j \in 1..Len(raw) :
        /\ SubSeq(raw, i, j) = <<"3", "0", "2", "7">>
        /\ \A k \in 1..Len(raw) : (k < i \/ k > j) => raw[k] \in {" ", "\t"}

AuthRecord(t) == [kind |-> "object", authenticated |-> "true", hasTs |-> TRUE, timestamp |-> t]

\* C1: the authentication record is written under 'portfolio_authenticated'
\* only by the check of a submission whose trimmed password is '3027'; after
\* the check of such a submission the record is present (when the storage
\* accepted the write) and the modal is hidden.
C1_RecordOnlyByCorrectSubmission ==
    /\ [][(storage'[sessionKey] # storage[sessionKey] /\ storage'[sessionKey].kind # "none")
            => /\ lastOp'.name = "check"
               /\ TypedCorrect(lastOp'.typed)
               /\ storage'[sessionKey] = AuthRecord(now)]_vars
    /\ [](lastOp.name = "check" /\ TypedCorrect(lastOp.typed)
            => /\ storageMode = "ok" => storage[sessionKey] = AuthRecord(now)
               /\ ~dom.modalShow
               /\ ~dom.bodyProtected)

\* a correct submission typed with surrounding whitespace has been checked
C1_Witness ==
    /\ lastOp.name = "check"
    /\ lastOp.typed = <<" ", "3", "0", "2", "7", "\t">>
    /\ storage[sessionKey] = AuthRecord(now)
    /\ ~dom.modalShow

\* C2: after the construction on a case-study page with isAuthenticated()
\* false, the modal has class 'show' and body has class 'password-protected'.
C2_ModalShownAfterInit ==
    (lastOp.name = "construct" /\ page.caseStudy
        /\ ~IsAuthenticated(storage, now, storageMode))
    => (dom.modalExists /\ dom.modalShow /\ dom.bodyProtected)

\* C3: once the modal is shown, body keeps class 'password-protected' until
\* a submission with the correct password has been checked (within one
\* document: loading a page starts from a fresh body).
C3_ProtectedUntilCorrectCheck ==
    [][(dom.bodyProtected /\ lastOp'.name # "construct")
        => \/ dom'.bodyProtected
           \/ lastOp'.name = "check" /\ TypedCorrect(lastOp'.typed)]_vars

\* C4: the check of a submission whose trimmed password is not '3027'
\* leaves sessionStorage unchanged, and after it the modal has class 'show',
\* #password-error holds the message and #password-input has class 'error'.
C4_WrongPasswordKeepsModal ==
    [][(lastOp'.name = "check" /\ ~TypedCorrect(lastOp'.typed))
        => /\ storage' = storage
           /\ dom'.modalShow
           /\ dom'.errorText = "Incorrect password. Please try again."
           /\ dom'.inputError]_vars

\* the record the claim counts as valid at time t: authenticated === true and
\* an age of at most 24 hours
ClaimedValid(item, t) ==
    /\ item.kind = "object"
    /\ item.authenticated = "true"
    /\ item.hasTs
    /\ t - item.timestamp <= 24 * 60 * 60 * 1000

\* a record older than 24 hours
ClaimedOld(item, t) ==
    item.kind = "object" /\ item.hasTs /\ t - item.timestamp > 24 * 60 * 60 * 1000

\* C5 as stated: isAuthenticated() returns true exactly for a parseable
\* record with authenticated === true aged at most 24 hours (the storage
\* being readable), and removes a record older than 24 hours.
C5_TrueExactlyForFreshRecord ==
    authResult.called =>
        /\ authResult.result <=>
               (storageMode # "blocked" /\ ClaimedValid(authResult.before, now))
        /\ (storageMode # "blocked" /\ ClaimedOld(authResult.before, now))
               => storage[sessionKey] = NoItem

\* C5 as amended: also true for a record with authenticated === true whose
\* timestamp is missing or not numeric; the item is removed exactly when it
\* is older than 24 hours, and nothing else in the storage changes.
C5_TrueUnlessExpired ==
    authResult.called =>
        /\ authResult.result <=>
               /\ storageMode # "blocked"
               /\ authResult.before.kind = "object"
               /\ authResult.before.authenticated = "true"
               /\ \/ ~authResult.before.hasTs
                  \/ now - authResult.before.timestamp <= 24 * 60 * 60 * 1000
        /\ storage[sessionKey] =
               IF storageMode # "blocked" /\ ClaimedOld(authResult.before, now)
               THEN NoItem ELSE authResult.before
        /\ storage[otherKey] = Text("prim")

\* a record aged exactly 24 hours has been accepted
C5_Witness ==
    /\ authResult.called
    /\ authResult.result
    /\ authResult.before.hasTs
    /\ now - authResult.before.timestamp = 24 * 60 * 60 * 1000

\* C6: no operation changes a sessionStorage key other than
\* 'portfolio_authenticated'; that key is written only by authenticateUser
\* (the check of a submission) and removed only by logout and by
\* isAuthenticated on expiry.
C6_OnlySessionKeyTouched ==
    [][/\ \A k \in SessionKeys \ {"portfolio_authenticated"} : storage'[k] = storage[k]
       /\ storage'["portfolio_authenticated"] # storage["portfolio_authenticated"]
            => \/ /\ lastOp'.name = "check"
                  /\ storage'["portfolio_authenticated"] = AuthRecord(now)
               \/ /\ lastOp'.name = "logout"
                  /\ storage'["portfolio_authenticated"] = NoItem
               \/ /\ lastOp'.name = "construct"
                  /\ ClaimedOld(storage["portfolio_authenticated"], now)
                  /\ storage'["portfolio_authenticated"] = NoItem]_vars

\* an expired record has been removed by a page load, the other key intact
C6_Witness ==
    /\ lastOp.name = "construct"
    /\ page.caseStudy
    /\ ticks > 0
    /\ now > StartTime + 24 * 60 * 60 * 1000
    /\ storage["portfolio_authenticated"] = NoItem
    /\ storage[otherKey] = Text("prim")

\* C7: in a run of contact clicks, each less than 1000 ms after the last
\* accepted one, at most four are accepted; every further click of the run
\* writes nothing to the clipboard and leaves lastClickTime and the link's
\* text and classes as they were.
C7_AtMostFourPerRun ==
    /\ [](hist.runAccepted <= 4)
    /\ [][(hist'.clicks > hist.clicks
            /\ now - cc.lastClickTime < 1000
            /\ hist.runAccepted >= 4)
          => /\ clipboard' = clipboard
             /\ pendingWrites' = pendingWrites
             /\ cc'.lastClickTime = cc.lastClickTime
             /\ link' = link
             /\ timers' = timers]_vars

\* the fifth click of a run has been turned away
C7_Witness ==
    /\ hist.outcome = "blocked"
    /\ hist.runAccepted = 4
    /\ hist.clicks = 5
    /\ cc.clickCount = 4

\* C8: once every pending 1500 ms timer has fired (and no clipboard write is
\* in flight), the link has no class 'copied' and its text is the text it
\* had before the first click.
C8_LinkResetAfterTimers ==
    (pendingWrites = 0 /\ \A i \in 1..Len(timers) : timers[i].kind # "reset")
    => (~link.copied /\ link.text = <<"Contact">>)

\* C9: a write that rejects or throws does not leave handleContactClick: the
\* handler announces the fallback message and puts the link into the
\* 'Copied!' state; the success message is announced only when a write
\* resolved.
C9_FailureHandled ==
    /\ [](~unhandled)
    /\ [][(\/ pendingWrites' < pendingWrites /\ hist'.outcome = "reject"
           \/ hist'.clicks > hist.clicks /\ hist'.outcome = "throw")
          => /\ cAnnounce' = "Unable to copy email automatically. Please copy the email address manually"
             /\ link'.copied
             /\ link'.text = <<"Copied!">>
             /\ Len(timers') > Len(timers)]_vars
    /\ [][(cAnnounce' = "Email address copied to clipboard" /\ cAnnounce' # cAnnounce)
          => (pendingWrites' < pendingWrites /\ hist'.outcome = "resolve")]_vars

\* a rejected write has been handled after an earlier successful one
C9_Witness ==
    /\ hist.outcome = "reject"
    /\ clipboard = "andrewmalonedesign@gmail.com"
    /\ cAnnounce = "Unable to copy email automatically. Please copy the email address manually"
    /\ link.copied
    /\ ~unhandled

\* C10 as stated: at most one timer is pending, func runs only when wait ms
\* have passed since the most recent call, with that call's arguments, and
\* exactly once per burst of calls spaced less than wait apart (every burst
\* but the one whose timer is still pending has had its run).
C10_ExactlyOncePerBurst ==
    /\ [](Cardinality(dbTimers) <= 1)
    /\ [](dbHist.runs = dbHist.bursts - Cardinality(dbTimers))
    /\ [][dbHist'.runs > dbHist.runs
          => /\ now >= dbHist.lastCall + 16
             /\ dbHist'.ranArgs = dbHist.lastArgs]_vars

\* C10 as amended: at most once per burst; a burst has no run exactly when
\* the next call came before its timer, already due, had fired.
C10_AtMostOncePerBurst ==
    /\ [](Cardinality(dbTimers) <= 1)
    /\ [](dbHist.runs <= dbHist.bursts)
    /\ [](dbHist.runs + dbHist.skipped + Cardinality(dbTimers) = dbHist.bursts)
    /\ [][dbHist'.runs > dbHist.runs
          => /\ dbHist'.runs = dbHist.runs + 1
             /\ now >= dbHist.lastCall + 16
             /\ dbHist'.ranArgs = dbHist.lastArgs
             /\ dbTimers' = {}]_vars

\* func has run for a burst of two calls with the arguments of the second,
\* and an earlier burst lost its run to a late timer
C10_Witness ==
    /\ dbHist.calls = 3
    /\ dbHist.bursts = 2
    /\ dbHist.skipped = 1
    /\ dbHist.runs = 1
    /\ dbHist.ranArgs = "b"
    /\ dbTimers = {}


\* this step dispatches an Escape keydown
EscapeStep ==
    /\ navLast'.n > navLast.n
    /\ navLast'.event = "keydown"
    /\ navLast'.key = "Escape"

\* C11: an Escape keydown while the menu is open leaves the menu closed
\* (isOpen false, aria-expanded 'false', no class 'mobile-open') with the
\* focus on the toggle button; an Escape keydown that only the document's
\* listener handles (its target is not the toggle) while the menu is closed
\* changes nothing and announces nothing.
C11_EscapeCloses ==
    /\ [][(EscapeStep /\ nav.isOpen) =>
            /\ ~nav'.isOpen
            /\ nav'.ariaExpanded = "false"
            /\ ~nav'.mobileOpen
            /\ nav'.focus = "toggle"]_vars
    /\ [][(EscapeStep /\ ~nav.isOpen /\ navLast'.target # "toggle") =>
            /\ nav' = nav
            /\ nav'.announced = nav.announced]_vars

\* the menu was open, the focus on a nav link, and Escape has closed it
C11_Witness ==
    /\ navLast.event = "keydown"
    /\ navLast.key = "Escape"
    /\ navLast.target = "navLink"
    /\ nav.announce = ClosedMsg
    /\ ~nav.isOpen
    /\ nav.focus = "toggle"

\* this step dispatches a click on the given target
ClickStep(target) ==
    /\ navLast'.n > navLast.n
    /\ navLast'.event = "click"
    /\ navLast'.target = target

\* C12: while the menu is open, a click outside .nav-header (and not on the
\* toggle) closes the menu, a click inside .nav-header on something other
\* than a nav link or the toggle leaves it open, and the document's click
\* listener never throws, whatever the markup of the page.
C12_ClickOutsideCloses ==
    /\ [][(ClickStep("outside") /\ nav.isOpen) => ~nav'.isOpen]_vars
    /\ [][(ClickStep("header") /\ nav.isOpen) => nav'.isOpen]_vars
    /\ [](~nav.thrown)

\* C13: without IntersectionObserver in window, after init() every
\* '.fade-in' element has class 'visible' and this.observer is null, and
\* destroy() changes nothing and does not throw.
C13_FallbackShowsAll ==
    /\ []((anim.constructed /\ ~animEnv.hasObserver) =>
            /\ animEnv.fadeIn \subseteq anim.visible
            /\ anim.observer = "null"
            /\ ~anim.thrown)
    /\ [][(animLast'.destroys > animLast.destroys /\ ~animEnv.hasObserver) =>
            anim' = anim]_vars

\* no IntersectionObserver, several '.fade-in' elements none of which the
\* markup had marked, and destroy() has run after init()
C13_Witness ==
    /\ ~animEnv.hasObserver
    /\ anim.constructed
    /\ animLast.op = "destroy"
    /\ animEnv.fadeIn = Elements
    /\ anim.visible = Elements
    /\ anim.observer = "null"

=============================================================================
